---- MODULE Spec2Model ----
(***************************************************************************)
(* Model of scripts/omero/hcs_scripts/merge_plate_run.py: run_script and   *)
(* combine_plates acting on the persisted plate / well / well-sample /     *)
(* run / screen graph.                                                     *)
(*                                                                         *)
(* Names are integer codes whose numeric order is their lexicographic      *)
(* order.  getWellPos is the well's position label; it is modelled as the  *)
(* pair (row, column), i.e. all plates label positions the same way.       *)
(* Query results are taken in ascending id order.                          *)
(***************************************************************************)
EXTENDS Integers, Sequences, FiniteSets, TLC

\* ------------------------------------------------------------ bounds ----
MaxWS == 2

WSIds == 1..MaxWS
PlateIds == {1, 2, 3}
RunIds0 == {1, 2}
Positions == {<<0, 0>>, <<0, 1>>}
ScreenIds == {1, 2}
StartTimes == {1, 2}

\* ---------------------------------------------------- null encodings ----
NoPlate == 0
NoRun == 0
NoScreen == 0
NoTime == 0
NoWell == 0

\* ------------------------------------------ script parameter values ----
\* source_types (run_script) and the sort_way strings combine_plates matches
SourceTypes == {"Plate", "Acquisition"}
SortWays == {"Plate name", "Plate & run name", "Acquisition name",
             "Acquisition start time"}

\* plate names (plate id -> name code); run names of the pre-existing runs
PlateName == [p \in PlateIds |-> IF p = 1 THEN 2 ELSE 1]
RunName0 == [r \in RunIds0 |-> 3 - r]

VARIABLES
    \* persisted state (server side)
    wells,          \* set of [id, plate, row, col]
    runs,           \* set of [id, plate, name, time]
    ws_well,        \* well-sample -> id of its parent well
    ws_run,         \* well-sample -> id of its run, or NoRun
    plate_screen,   \* plate -> its screen, or NoScreen
    \* script inputs
    entry,          \* "run_script" or "combine_plates" (called directly)
    has_params,     \* FALSE: a required key is absent from the client inputs
    target_plate_id,
    source_ids,
    source_type,
    sort_way,
    same_screen,
    \* combine_plates locals
    pc,
    plate_run_l,    \* sequence of <<plate id, run id>>
    childcache,     \* per work-list entry: wells/samples its plate wrapper loaded
    well_d,         \* position -> well id (NoWell when absent)
    idx,            \* loop index into plate_run_l
    new_well_count,
    count_well_sample,
    message,        \* returned summary, or <<>>
    raised,         \* "none", "AssertionError", "AttributeError", "KeyError"
    error,          \* the message of the failed assertion, or ""
    \* run_script / client
    outputs,        \* set of output keys set on the client
    closed,         \* number of client.closeSession() calls
    \* history
    db0,            \* the persisted state at invocation
    repointed       \* well-sample -> number of setWell calls that were saved

db == <<wells, runs, ws_well, ws_run, plate_screen>>
inputs == <<entry, has_params, target_plate_id, source_ids, source_type,
            sort_way, same_screen>>
locals == <<plate_run_l, childcache, well_d, idx, new_well_count,
            count_well_sample, message>>
vars == <<db, inputs, locals, pc, raised, error, outputs, closed, db0, repointed>>

\* ------------------------------------------------------- object graph ----
Max(S) == CHOOSE x \in S : \A y \in S : y <= x
Min(S) == CHOOSE x \in S : \A y \in S : x <= y

getWellPos(w) == <<w.row, w.col>>

listWells(W, p) == {w \in W : w.plate = p}

listPlateAcquisitions(R, p) == {r \in R : r.plate = p}

RunById(R, id) == CHOOSE r \in R : r.id = id

WellById(W, id) == CHOOSE w \in W : w.id = id

NextRunId(R) == IF R = {} THEN 1 ELSE Max({r.id : r \in R}) + 1

NextWellId(W) == IF W = {} THEN 1 ELSE Max({w.id : w \in W}) + 1

\* well-samples of all the wells of plate p
PlateSamples(W, WW, p) == {s \in WSIds : \E w \in listWells(W, p) : w.id = WW[s]}

\* ascending sequence of a finite set of integers
RECURSIVE SetToSeq(_)
SetToSeq(S) == IF S = {} THEN <<>> ELSE <<Min(S)>> \o SetToSeq(S \ {Min(S)})

Range(s) == {s[i] : i \in DOMAIN s}


\* --------------------------------------------------------- initial db ----
InitWellId(p, pos) == (p - 1) * 4 + pos[1] * 2 + pos[2] + 1

InitWells(pw) ==
    {[id |-> InitWellId(x[1], x[2]), plate |-> x[1], row |-> x[2][1], col |-> x[2][2]] :
        x \in {y \in PlateIds \X Positions : y[2] \in pw[y[1]]}}

InitRuns(rp, rt) ==
    {[id |-> r, plate |-> rp[r], name |-> RunName0[r], time |-> rt[r]] :
        r \in {x \in RunIds0 : rp[x] # NoPlate}}

\* a well-sample's run, when it has one, is a run of the plate of its well
SamplesConsistent(W, R, WW, WR) ==
    \A s \in WSIds :
        /\ \E w \in W : w.id = WW[s]
        /\ WR[s] # NoRun =>
              \E r \in R : r.id = WR[s] /\ r.plate = WellById(W, WW[s]).plate

InitDb(pw, rp, rt, sc, holders) ==
    /\ wells = InitWells(pw)
    /\ runs = InitRuns(rp, rt)
    /\ plate_screen = sc
    /\ ws_well \in [WSIds -> {w.id : w \in {x \in wells : x.plate \in holders}}]
    /\ \A s \in WSIds : s > 1 => ws_well[s - 1] <= ws_well[s]
    /\ ws_run \in [WSIds -> {NoRun} \cup {r.id : r \in runs}]
    /\ SamplesConsistent(wells, runs, ws_well, ws_run)

\* the ids a caller can pass: existing plates, or existing runs
InitSources ==
    \/ /\ source_type = "Plate"
       /\ source_ids \in (SUBSET PlateIds) \ {{}}
    \/ /\ source_type = "Acquisition"
       /\ source_ids \in (SUBSET {r.id : r \in runs}) \ {{}}

\* run_script always calls with the default same_screen = True (line 40, 231)
InitEntry ==
    /\ entry \in {"run_script", "combine_plates"}
    /\ same_screen = (entry = "run_script")

InitLocals ==
    /\ pc = IF entry = "run_script" THEN "rs_params" ELSE "cp_start"
    /\ plate_run_l = <<>>
    /\ childcache = <<>>
    /\ well_d = [pos \in Positions |-> NoWell]
    /\ idx = 0
    /\ new_well_count = 0
    /\ count_well_sample = 0
    /\ message = <<>>
    /\ raised = "none"
    /\ error = ""
    /\ outputs = {}
    /\ closed = 0
    /\ db0 = [wells |-> wells, runs |-> runs, ws_well |-> ws_well, ws_run |-> ws_run]
    /\ repointed = [s \in WSIds |-> 0]

A1 == <<0, 0>>
A2 == <<0, 1>>
FixedWells == [p \in PlateIds |-> IF p = 1 THEN {A1} ELSE IF p = 2 THEN {A1, A2} ELSE {A2}]
SameScreen == [p \in PlateIds |-> 1]
Timed == [r \in RunIds0 |-> r]
\* run 1 is a run of plate 2; run 2 is absent or a run of any plate
RunPlates == {rp \in [RunIds0 -> PlateIds \cup {NoPlate}] : rp[1] = 2}

\* the wells, the runs and the samples vary; every plate is in screen 1
InitLayout ==
    /\ \E pw \in [PlateIds -> SUBSET Positions], rp \in RunPlates :
          /\ A1 \in pw[2] /\ A2 \in pw[3]
          /\ rp[2] # NoPlate
          /\ InitDb(pw, rp, Timed, SameScreen, PlateIds)
    /\ entry = "run_script"
    /\ same_screen = TRUE
    /\ has_params = TRUE
    /\ target_plate_id = 1
    /\ sort_way \in {"Plate name", "Acquisition name"}
    /\ InitSources
    /\ InitLocals

\* the screens of the plates vary
InitScreens ==
    /\ \E sc \in [PlateIds -> {NoScreen} \cup ScreenIds], rp \in RunPlates :
          InitDb(FixedWells, rp, Timed, sc, {3})
    /\ InitEntry
    /\ has_params = TRUE
    /\ target_plate_id = 1
    /\ sort_way = "Plate & run name"
    /\ InitSources
    /\ InitLocals

\* the start times of the runs vary, ordered by start time
InitTimes ==
    /\ \E rt \in [RunIds0 -> {NoTime} \cup StartTimes], rp \in RunPlates :
          InitDb(FixedWells, rp, rt, SameScreen, {3})
    /\ InitEntry
    /\ has_params = TRUE
    /\ target_plate_id = 1
    /\ sort_way = "Acquisition start time"
    /\ InitSources
    /\ InitLocals

\* a required input key is absent, or the target plate does not exist
InitBadInput ==
    /\ \E rp \in RunPlates : InitDb(FixedWells, rp, Timed, SameScreen, {3})
    /\ InitEntry
    /\ \/ has_params = FALSE /\ entry = "run_script" /\ target_plate_id = 1
       \/ has_params = TRUE /\ target_plate_id = 4
    /\ sort_way = "Acquisition name"
    /\ InitSources
    /\ InitLocals

Init == InitLayout \/ InitScreens \/ InitTimes \/ InitBadInput


\* ------------------------------------------------- combine_plates ----
\* where an exception raised inside combine_plates takes control
Raise(kind, msg) ==
    /\ raised' = kind
    /\ error' = msg
    /\ pc' = IF entry = "run_script"
             THEN (IF kind = "AssertionError" THEN "rs_except" ELSE "rs_finally")
             ELSE "exit"

\* line 58-59: the target plate must exist
CP_Start ==
    /\ pc = "cp_start"
    /\ IF target_plate_id \in PlateIds
       THEN pc' = "cp_resolve" /\ UNCHANGED <<raised, error>>
       ELSE Raise("AssertionError", "Target Plate not found.")
    /\ UNCHANGED <<db, inputs, locals, outputs, closed, db0, repointed>>

\* mutation: the target is left among the source plates
SourcePlatesAll(ids, target) == ids

\* line 64: the target is never one of the source plates
SourcePlates(ids, target) == ids \ {target}

\* line 69: a source plate without any run
HasNoRun(R, p) == Cardinality(listPlateAcquisitions(R, p)) = 0

\* lines 71-80: a new run named after the plate, holding all its well-samples
NewRun(R, p) ==
    [id |-> NextRunId(R), plate |-> p, name |-> PlateName[p], time |-> NoTime]

\* mutation: the new run is saved without its well-samples
AddNoWellSamples(W, WW, WR, p, run_id) == WR

AddAllWellSamples(W, WW, WR, p, run_id) ==
    [s \in WSIds |-> IF s \in PlateSamples(W, WW, p) THEN run_id ELSE WR[s]]

\* lines 66-80: the loop over the source plates, as [runs, ws_run]
RECURSIVE EnsureRuns(_, _, _, _, _)
EnsureRuns(todo, W, WW, R, WR) ==
    IF todo = {} THEN [runs |-> R, ws_run |-> WR]
    ELSE LET p == Min(todo) IN
         IF HasNoRun(R, p)
         THEN EnsureRuns(todo \ {p}, W, WW, R \cup {NewRun(R, p)},
                         AddAllWellSamples(W, WW, WR, p, NextRunId(R)))
         ELSE EnsureRuns(todo \ {p}, W, WW, R, WR)

\* lines 83-84: (plate, run) for every run of every source plate
RECURSIVE PlateRuns(_, _)
PlateRuns(plates, R) ==
    IF plates = <<>> THEN <<>>
    ELSE LET p == Head(plates)
             ids == SetToSeq({r.id : r \in listPlateAcquisitions(R, p)})
         IN [k \in 1..Len(ids) |-> <<p, ids[k]>>] \o PlateRuns(Tail(plates), R)

\* line 86: (parent plate, run) for every source run
AcquisitionRuns(ids, R) ==
    LET found == SetToSeq({r.id : r \in {x \in R : x.id \in ids}})
    IN [k \in 1..Len(found) |-> <<RunById(R, found[k]).plate, found[k]>>]

\* lines 61-86
CP_Resolve ==
    /\ pc = "cp_resolve"
    /\ IF source_type = "Plate"
       THEN LET src == SourcePlates(source_ids, target_plate_id)
                e == EnsureRuns(src, wells, ws_well, runs, ws_run)
            IN /\ runs' = e.runs
               /\ ws_run' = e.ws_run
               /\ plate_run_l' = PlateRuns(SetToSeq(src), e.runs)
       ELSE /\ plate_run_l' = AcquisitionRuns(source_ids, runs)
            /\ UNCHANGED <<runs, ws_run>>
    /\ pc' = "cp_sort"
    /\ UNCHANGED <<wells, ws_well, plate_screen, inputs, childcache, well_d, idx,
                   new_well_count, count_well_sample, message, raised, error, outputs,
                   closed, db0, repointed>>

\* ---- lines 88-95: ordering of the work list
KeyLess(a, b) == a[1] < b[1] \/ (a[1] = b[1] /\ a[2] < b[2])

RECURSIVE InsertByKey(_, _)
InsertByKey(x, s) ==
    IF s = <<>> THEN <<x>>
    ELSE IF KeyLess(x.key, Head(s).key) THEN <<x>> \o s
    ELSE <<Head(s)>> \o InsertByKey(x, Tail(s))

\* Python's sorted(): stable, ascending
RECURSIVE sorted(_)
sorted(s) ==
    IF s = <<>> THEN <<>>
    ELSE InsertByKey(s[Len(s)], sorted(SubSeq(s, 1, Len(s) - 1)))

\* line 89 and line 91: the sort keys
PlateRunNameKey(R, x) == <<PlateName[x[1]], RunById(R, x[2]).name>>

RunNameKey(R, x) == <<RunById(R, x[2]).name, 0>>

SortedBy(l, R, by_plate) ==
    LET keyed == [k \in 1..Len(l) |->
                    [key |-> IF by_plate THEN PlateRunNameKey(R, l[k])
                                         ELSE RunNameKey(R, l[k]),
                     item |-> l[k]]]
        out == sorted(keyed)
    IN [k \in 1..Len(l) |-> out[k].item]

\* line 93
AllTime(l, R) == [k \in 1..Len(l) |-> RunById(R, l[k][2]).time]

\* line 95: the key is applied to each (plate, run) tuple of the list, and a
\* tuple has no getStartTime, so only an empty list is sorted without a fault
StartTimeSortFaults(l) == Len(l) > 0

CP_Sort ==
    /\ pc = "cp_sort"
    /\ IF sort_way = "Plate & run name"
       THEN /\ plate_run_l' = SortedBy(plate_run_l, runs, TRUE)
            /\ pc' = "cp_screen" /\ UNCHANGED <<raised, error>>
       ELSE IF sort_way = "Acquisition name"
       THEN /\ plate_run_l' = SortedBy(plate_run_l, runs, FALSE)
            /\ pc' = "cp_screen" /\ UNCHANGED <<raised, error>>
       ELSE IF sort_way = "Acquisition start time"
       THEN /\ UNCHANGED plate_run_l
            /\ IF NoTime \in Range(AllTime(plate_run_l, runs))
               THEN Raise("AssertionError",
                          "Some runs don't have a start acquisition time.")
               ELSE IF StartTimeSortFaults(plate_run_l)
               THEN Raise("AttributeError", "")
               ELSE pc' = "cp_screen" /\ UNCHANGED <<raised, error>>
       ELSE /\ UNCHANGED <<plate_run_l, raised, error>>
            /\ pc' = "cp_screen"
    /\ UNCHANGED <<db, inputs, childcache, well_d, idx, new_well_count,
                   count_well_sample, message, outputs, closed, db0, repointed>>

\* ---- lines 99-112: the same-screen safety
\* line 102: the plates looked at
InvolvedPlates(l, target) == {l[k][1] : k \in DOMAIN l} \cup {target}

\* lines 104-105: plates without a screen
plate_l(l, target) == {p \in InvolvedPlates(l, target) : plate_screen[p] = NoScreen}

\* lines 107-108: the distinct screens
screen_l(l, target) ==
    {plate_screen[p] : p \in InvolvedPlates(l, target) \ plate_l(l, target)}

\* mutation: plates without any screen pass when no plate has one
ScreenSafeLenient(l, target) ==
    /\ Cardinality(screen_l(l, target)) <= 1
    /\ (plate_l(l, target) = {} \/ screen_l(l, target) = {})

\* lines 111-112: both assertions pass
ScreenSafe(l, target) ==
    /\ Cardinality(plate_l(l, target)) = 0
    /\ Cardinality(screen_l(l, target)) = 1

\* lines 111-112: the message of the first assertion that fails
ScreenError(l, target) ==
    IF Cardinality(plate_l(l, target)) # 0
    THEN "Screen safety error: plate not part of a screen"
    ELSE "Screen safety error: Plates belong to different Screens"

CP_Screen ==
    /\ pc = "cp_screen"
    /\ IF same_screen /\ ~ScreenSafe(plate_run_l, target_plate_id)
       THEN Raise("AssertionError", ScreenError(plate_run_l, target_plate_id))
       ELSE pc' = "cp_wells" /\ UNCHANGED <<raised, error>>
    /\ UNCHANGED <<db, inputs, locals, outputs, closed, db0, repointed>>

\* ---- lines 114-129: index the target's wells, create the missing ones
\* lines 115-116 and 150-152: position -> well of the target plate
IndexWells(W, target) ==
    [pos \in Positions |->
        IF \E w \in listWells(W, target) : getWellPos(w) = pos
        THEN (CHOOSE w \in listWells(W, target) : getWellPos(w) = pos).id
        ELSE NoWell]

\* mutation: the position is not looked up in well_d
IsMissingAlways(D, pos) == TRUE

\* line 122
IsMissing(D, pos) == D[pos] = NoWell

\* what a plate wrapper's listChildren() loads and then keeps: the plate's
\* well positions and, per well-sample of these wells, its position and run
LoadChildren(W, WW, WR, p) ==
    [pos |-> {getWellPos(w) : w \in listWells(W, p)},
     samples |-> {[ws |-> s, pos |-> getWellPos(WellById(W, WW[s])), run |-> WR[s]] :
                     s \in PlateSamples(W, WW, p)}]

\* lines 123-127: one new well of the target at pos
NewWell(W, target, pos) ==
    [id |-> NextWellId(W), plate |-> target, row |-> pos[1], col |-> pos[2]]

\* line 121-129 for the wells of one plate: [wells, well_d, n]
RECURSIVE CreateMissing(_, _, _, _, _)
CreateMissing(todo, W, D, n, target) ==
    IF todo = {} THEN [wells |-> W, well_d |-> D, n |-> n]
    ELSE LET pos == CHOOSE x \in todo : \A y \in todo : x[1] < y[1] \/ (x[1] = y[1] /\ x[2] <= y[2])
         IN IF IsMissing(D, pos)
            THEN CreateMissing(todo \ {pos}, W \cup {NewWell(W, target, pos)},
                               [D EXCEPT ![pos] = NextWellId(W)], n + 1, target)
            ELSE CreateMissing(todo \ {pos}, W, D, n, target)

\* lines 120-129: the loop over the work list: [wells, well_d, n, cache]
RECURSIVE PopulateTarget(_, _, _, _, _)
PopulateTarget(k, W, D, n, C) ==
    IF k > Len(plate_run_l) THEN [wells |-> W, well_d |-> D, n |-> n, cache |-> C]
    ELSE LET p == plate_run_l[k][1]
             shared == {j \in 1..(k - 1) : source_type = "Plate" /\ plate_run_l[j][1] = p}
             c == IF shared # {} THEN C[Min(shared)]
                  ELSE LoadChildren(W, ws_well, ws_run, p)
             r == CreateMissing(c.pos, W, D, n, target_plate_id)
         IN PopulateTarget(k + 1, r.wells, r.well_d, r.n, Append(C, c))

CP_Wells ==
    /\ pc = "cp_wells"
    /\ LET r == PopulateTarget(1, wells, IndexWells(wells, target_plate_id), 0, <<>>)
       IN /\ wells' = r.wells
          /\ well_d' = r.well_d
          /\ new_well_count' = r.n
          /\ childcache' = r.cache
    /\ idx' = 1
    /\ pc' = IF Len(plate_run_l) = 0 THEN "cp_return" ELSE "cp_fold"
    /\ UNCHANGED <<runs, ws_well, ws_run, plate_screen, inputs, plate_run_l,
                   count_well_sample, message, raised, error, outputs, closed, db0, repointed>>

\* ---- lines 131-152: fold one run into the target
\* line 136: reading the run id of a well-sample that has no run faults
FilterFaults(c) == \E x \in c.samples : x.run = NoRun

\* mutation: the filter on the run is dropped
RunSamplesAll(c, run_id) == c.samples

\* line 136: the well-samples of the run among the plate's loaded samples
RunSamples(c, run_id) == {x \in c.samples : x.run = run_id}

\* lines 138-139, saved by line 143
SetWell(WW, moved, D) ==
    [s \in WSIds |-> IF \E x \in moved : x.ws = s
                     THEN D[(CHOOSE x \in moved : x.ws = s).pos]
                     ELSE WW[s]]

\* mutation: the run keeps its plate
SetPlateSkipped(R, run_id, target) == R

\* lines 145-146
SetPlate(R, run_id, target) ==
    {IF r.id = run_id THEN [r EXCEPT !.plate = target] ELSE r : r \in R}

CP_Fold ==
    /\ pc = "cp_fold"
    /\ LET run_id == plate_run_l[idx][2]
           c == childcache[idx]
           moved == RunSamples(c, run_id)
       IN IF FilterFaults(c)
          THEN /\ Raise("AttributeError", "")
               /\ UNCHANGED <<db, well_d, idx, count_well_sample, repointed>>
          ELSE /\ ws_well' = SetWell(ws_well, moved, well_d)
               /\ count_well_sample' = count_well_sample + Cardinality(moved)
               /\ repointed' = [s \in WSIds |->
                                  IF \E x \in moved : x.ws = s
                                  THEN repointed[s] + 1 ELSE repointed[s]]
               /\ runs' = SetPlate(runs, run_id, target_plate_id)
               /\ well_d' = IndexWells(wells, target_plate_id)
               /\ idx' = idx + 1
               /\ pc' = IF idx = Len(plate_run_l) THEN "cp_return" ELSE "cp_fold"
               /\ UNCHANGED <<wells, ws_run, plate_screen, raised, error>>
    /\ UNCHANGED <<inputs, plate_run_l, childcache, new_well_count, message,
                   outputs, closed, db0>>

\* lines 154-160
Summary(images, n_runs, target, created) ==
    [images |-> images, runs |-> n_runs, plate |-> target, wells |-> created]

CP_Return ==
    /\ pc = "cp_return"
    /\ message' = Summary(count_well_sample, Len(plate_run_l), target_plate_id,
                          new_well_count)
    /\ pc' = IF entry = "run_script" THEN "rs_output" ELSE "exit"
    /\ UNCHANGED <<db, inputs, plate_run_l, childcache, well_d, idx, new_well_count,
                   count_well_sample, raised, error, outputs, closed, db0, repointed>>

\* ------------------------------------------------------- run_script ----
\* lines 218-227: params[k] for a key the client did not send is a KeyError
RS_Params ==
    /\ pc = "rs_params"
    /\ IF has_params
       THEN pc' = "cp_start" /\ UNCHANGED raised
       ELSE pc' = "rs_finally" /\ raised' = "KeyError"
    /\ UNCHANGED error
    /\ UNCHANGED <<db, inputs, locals, outputs, closed, db0, repointed>>

\* lines 234-236
RS_Output ==
    /\ pc = "rs_output"
    /\ outputs' = outputs \cup {"Message", "Result"}
    /\ pc' = "rs_finally"
    /\ UNCHANGED <<db, inputs, locals, raised, error, closed, db0, repointed>>

\* lines 237-240
RS_Except ==
    /\ pc = "rs_except"
    /\ outputs' = outputs \cup {"ERROR"}
    /\ pc' = "rs_finally"
    /\ UNCHANGED <<db, inputs, locals, raised, error, closed, db0, repointed>>

\* mutation: the session is left open
CloseSessionSkipped(n) == n

\* lines 241-242
CloseSession(n) == n + 1

RS_Finally ==
    /\ pc = "rs_finally"
    /\ closed' = CloseSession(closed)
    /\ pc' = "exit"
    /\ UNCHANGED <<db, inputs, locals, raised, error, outputs, db0, repointed>>

Next ==
    \/ RS_Params
    \/ CP_Start
    \/ CP_Resolve
    \/ CP_Sort
    \/ CP_Screen
    \/ CP_Wells
    \/ CP_Fold
    \/ CP_Return
    \/ RS_Output
    \/ RS_Except
    \/ RS_Finally

Spec == Init /\ [][Next]_vars

\* ============================================================ properties ====
Target == target_plate_id

\* combine_plates has returned its summary
Completed == message # <<>>

\* the persisted objects are as they were at invocation
DbUnchanged ==
    /\ wells = db0.wells
    /\ runs = db0.runs
    /\ ws_well = db0.ws_well
    /\ ws_run = db0.ws_run

\* the work list exists from here on
Resolved == pc \notin {"rs_params", "cp_start", "cp_resolve"} /\ raised # "KeyError"
                /\ Target \in PlateIds

WorkRuns == {plate_run_l[k][2] : k \in DOMAIN plate_run_l}

InWorkList(s) == ws_run[s] \in WorkRuns

Pos0(s) == getWellPos(WellById(db0.wells, db0.ws_well[s]))

Plate0(s) == WellById(db0.wells, db0.ws_well[s]).plate

Parent(s) == WellById(wells, ws_well[s])

\* ---- C1: the target plate never holds two wells at one (row, column), and
\* every well created is a well of the target at a position where the target
\* had no well at invocation, one per position
C1_WellUniqueness ==
    /\ \A w1, w2 \in listWells(wells, Target) :
          getWellPos(w1) = getWellPos(w2) => w1 = w2
    /\ \A w \in wells \ db0.wells :
          /\ w.plate = Target
          /\ ~\E v \in listWells(db0.wells, Target) : getWellPos(v) = getWellPos(w)
    /\ Completed => Cardinality(wells \ db0.wells) = message.wells

\* two different source plates both have a well at a position the target lacked
C1_Witness ==
    /\ Completed
    /\ \E i, j \in DOMAIN plate_run_l :
          /\ plate_run_l[i][1] # plate_run_l[j][1]
          /\ \E pos \in childcache[i].pos \cap childcache[j].pos :
                ~\E v \in listWells(db0.wells, Target) : getWellPos(v) = pos

\* ---- C2: on a completed merge the reported image count is the number of
\* well-samples of the runs of the work list, and each of them was re-pointed
\* exactly once, every other well-sample never
C2_SampleConservation ==
    Completed =>
        /\ message.images = Cardinality({s \in WSIds : InWorkList(s)})
        /\ \A s \in WSIds : repointed[s] = IF InWorkList(s) THEN 1 ELSE 0

\* two runs of one source plate, each with a well-sample, were folded
C2_Witness ==
    /\ Completed
    /\ \E i, j \in DOMAIN plate_run_l :
          /\ i # j
          /\ plate_run_l[i][1] = plate_run_l[j][1]
          /\ \E s, t \in WSIds : ws_run[s] = plate_run_l[i][2] /\ ws_run[t] = plate_run_l[j][2]

\* ---- C3: on a completed merge every well-sample of a run of the work list
\* has a parent well of the target plate at the position it had in its source
\* plate, and every run of the work list is a run of the target plate
C3_Repointed ==
    Completed =>
        /\ \A s \in WSIds : InWorkList(s) =>
              /\ \E w \in wells : w.id = ws_well[s]
              /\ Parent(s).plate = Target
              /\ getWellPos(Parent(s)) = Pos0(s)
        /\ \A r \in WorkRuns : RunById(runs, r).plate = Target

\* a well-sample moved from a source plate into a well created for it
C3_Witness ==
    /\ Completed
    /\ \E s \in WSIds :
          /\ InWorkList(s)
          /\ Plate0(s) # Target
          /\ Parent(s) \notin db0.wells

\* ---- C4 (as claimed): with same_screen on and the involved plates in two
\* different screens, combine_plates fails with a validation error and the
\* persisted state is untouched
C4_ScreenFailureMutatesNothing ==
    (/\ Resolved
     /\ pc \notin {"cp_sort", "cp_screen"}
     /\ same_screen
     /\ Cardinality(screen_l(plate_run_l, Target)) = 2
     /\ error # "Some runs don't have a start acquisition time."
     /\ ~(sort_way = "Acquisition start time" /\ raised = "AttributeError"))
    => /\ raised = "AssertionError"
       /\ DbUnchanged

\* ---- C5 (as claimed): ordered by start time with a run of the work list
\* lacking a start time, combine_plates fails with the persisted state untouched
C5_MissingTimeMutatesNothing ==
    (/\ Resolved
     /\ pc # "cp_sort"
     /\ sort_way = "Acquisition start time"
     /\ NoTime \in Range(AllTime(plate_run_l, runs)))
    => /\ raised = "AssertionError"
       /\ DbUnchanged

\* ---- C6 (as claimed): ordered by start time with every run of a non-empty
\* work list timed, the work list is in ascending start time order and the
\* merge completes
C6_StartTimeOrderCompletes ==
    (/\ Resolved
     /\ pc = "exit"
     /\ sort_way = "Acquisition start time"
     /\ Len(plate_run_l) > 0
     /\ NoTime \notin Range(AllTime(plate_run_l, runs))
     /\ ~(same_screen /\ ~ScreenSafe(plate_run_l, Target))
     /\ \A k \in DOMAIN childcache : ~FilterFaults(childcache[k]))
    => /\ Completed
       /\ \A i, j \in DOMAIN plate_run_l :
             i < j => AllTime(plate_run_l, runs)[i] <= AllTime(plate_run_l, runs)[j]

\* ---- C7
Sources == SourcePlates(source_ids, Target)

TargetRuns0 == {r.id : r \in listPlateAcquisitions(db0.runs, Target)}

OnlyTarget ==
    /\ source_type = "Plate"
    /\ source_ids = {Target}
    /\ Target \in PlateIds
    /\ pc = "exit"
    /\ raised # "KeyError"

\* C7 (as claimed): with source kind Plate and the target as the only source,
\* the merge reports zero runs merged and zero wells created and leaves the
\* persisted state unchanged
C7_OnlyTargetReportsZero ==
    OnlyTarget =>
        /\ Completed
        /\ message.runs = 0
        /\ message.wells = 0
        /\ DbUnchanged

\* C7 (amended): with source kind Plate the target is never a source: it gets
\* no synthesized run and neither it nor any of its runs enters the work list;
\* with the target as the only source the persisted state is unchanged, and
\* the merge reports zero images, zero runs and zero wells unless same_screen
\* is on and the target has no screen, in which case it fails with the
\* screen-safety validation error
C7_SelfReferenceExcluded ==
    /\ (source_type = "Plate" /\ Resolved) =>
          /\ \A k \in DOMAIN plate_run_l :
                plate_run_l[k][1] # Target /\ plate_run_l[k][2] \notin TargetRuns0
          /\ pc = "cp_sort" =>
                listPlateAcquisitions(runs, Target) = listPlateAcquisitions(db0.runs, Target)
    /\ OnlyTarget =>
          /\ DbUnchanged
          /\ IF same_screen /\ plate_screen[Target] = NoScreen
             THEN /\ raised = "AssertionError"
                  /\ error = "Screen safety error: plate not part of a screen"
                  /\ ~Completed
             ELSE /\ raised = "none"
                  /\ message = Summary(0, 0, Target, 0)

\* the target, holding well-samples but no run, was its own only source and
\* the merge returned
C7_Witness ==
    /\ OnlyTarget
    /\ Completed
    /\ HasNoRun(db0.runs, Target)
    /\ \E s \in WSIds : Plate0(s) = Target

\* ---- C8: with source kind Plate, right after the work list is resolved a
\* source plate that had no run has exactly one run, a new one named after the
\* plate that holds every well-sample of the plate, and a source plate that
\* had runs has exactly those; on a completed merge every new run is a run of
\* the target and every well-sample of such a plate was migrated once, under
\* the plate's new run, into a well of the target
NewRuns == {r \in runs : r.id \notin {x.id : x \in db0.runs}}

RunLess0 == {p \in Sources : HasNoRun(db0.runs, p)}

Samples0(p) == PlateSamples(db0.wells, db0.ws_well, p)

C8_AutoRunSynthesis ==
    (source_type = "Plate" /\ Resolved) =>
        /\ Cardinality(NewRuns) = Cardinality(RunLess0)
        /\ \A p \in RunLess0 :
              \E r \in NewRuns :
                  /\ r.name = PlateName[p]
                  /\ \A s \in Samples0(p) : ws_run[s] = r.id
        /\ \A s \in WSIds : Plate0(s) \notin RunLess0 => ws_run[s] = db0.ws_run[s]
        /\ pc = "cp_sort" =>
              \A p \in Sources :
                 IF p \in RunLess0
                 THEN /\ Cardinality(listPlateAcquisitions(runs, p)) = 1
                      /\ listPlateAcquisitions(runs, p) \subseteq NewRuns
                 ELSE listPlateAcquisitions(runs, p) = listPlateAcquisitions(db0.runs, p)
        /\ Completed =>
              /\ \A r \in NewRuns : r.plate = Target
              /\ \A p \in RunLess0 : \A s \in Samples0(p) :
                    /\ repointed[s] = 1
                    /\ Parent(s).plate = Target
                    /\ getWellPos(Parent(s)) = Pos0(s)

\* a source plate without runs and with well-samples in two wells was merged
C8_Witness ==
    /\ source_type = "Plate"
    /\ Completed
    /\ \E p \in RunLess0 : \E s, t \in Samples0(p) : db0.ws_well[s] # db0.ws_well[t]

\* ---- C9: under run_script the session is closed exactly once, at exit and
\* not before; when the session is about to be closed or has been closed the
\* ERROR output is set exactly when an assertion failed, and the Message
\* output exactly when combine_plates returned
C9_GuaranteedCleanup ==
    entry = "run_script" =>
        /\ closed = IF pc = "exit" THEN 1 ELSE 0
        /\ "ERROR" \in outputs => raised = "AssertionError"
        /\ pc \in {"rs_finally", "exit"} =>
              /\ "ERROR" \in outputs <=> raised = "AssertionError"
              /\ "Message" \in outputs <=> raised = "none"
              /\ raised = "none" <=> Completed

\* an unexpected fault inside combine_plates, and the session closed
C9_Witness ==
    /\ entry = "run_script"
    /\ pc = "exit"
    /\ raised = "AttributeError"
    /\ closed = 1
    /\ outputs = {}

\* ---- C10: with same_screen on, the screen check lets the merge proceed
\* exactly when every involved plate has one and the same screen, and fails
\* with a validation error otherwise
AllInOneScreen ==
    \E sc \in ScreenIds :
        \A p \in InvolvedPlates(plate_run_l, Target) : plate_screen[p] = sc

C10_ScreenPolicy ==
    [][(pc = "cp_screen" /\ same_screen) =>
          /\ pc' = "cp_wells" <=> AllInOneScreen
          /\ pc' # "cp_wells" =>
                /\ raised' = "AssertionError"
                /\ error' \in {"Screen safety error: plate not part of a screen",
                              "Screen safety error: Plates belong to different Screens"}]_vars

\* target and sources all without a screen: rejected
C10_Witness ==
    /\ same_screen
    /\ Len(plate_run_l) > 0
    /\ \A p \in InvolvedPlates(plate_run_l, Target) : plate_screen[p] = NoScreen
    /\ raised = "AssertionError"
    /\ error = "Screen safety error: plate not part of a screen"
====
